---- MODULE Spec2Model ----
(***************************************************************************)
(* A model of clox's single-pass expression compiler (src/src/compiler.c)  *)
(* and of its string objects and intern table (src/src/object.c).          *)
(*                                                                         *)
(* The compiler is a recursive-descent (Pratt) parser.  Its C call stack   *)
(* is the variable `stack`: one frame per function that is waiting for a   *)
(* callee, and one action per stretch of code between two calls.  The      *)
(* scanner, the chunk and the hash table are other files of the            *)
(* repository; they are modelled by what the compiler needs of them.       *)
(***************************************************************************)
EXTENDS Integers, Sequences, FiniteSets, TLC

\* ------------------------------------------------------------------ bounds

\* Longest token stream (end-of-input excluded) over the full alphabet.
MaxTokens == 3
\* Longest token stream that is a prefix of an arithmetic expression.
MaxExprTokens == 7

\* --------------------------------------------------------- program constants

PREC_NONE == 0
PREC_ASSIGN == 1
PREC_OR == 2
PREC_AND == 3
PREC_EQUALITY == 4
PREC_COMPARISON == 5
PREC_TERM == 6
PREC_FACTOR == 7
PREC_UNARY == 8
PREC_CALL == 9
PREC_PRIMARY == 10

UINT8_MAX == 255

\* ------------------------------------------------------------------ tokens

\* The token types the scanner is made to yield.  SEMICOLON stands for the
\* token types whose rule is {NULL, NULL, PREC_NONE} and that no code names.
TokenTypes ==
    {"LEFT_PAREN", "RIGHT_PAREN", "MINUS", "PLUS", "SLASH", "STAR", "NUMBER",
     "FALSE", "NIL", "TRUE", "SEMICOLON", "ERROR"}

ArithTypes ==
    {"LEFT_PAREN", "RIGHT_PAREN", "MINUS", "PLUS", "SLASH", "STAR", "NUMBER"}

BinaryTypes == {"MINUS", "PLUS", "SLASH", "STAR"}

\* A token: its type and the place of its lexeme in the source (the index of
\* the token in the stream, so that two lexemes never share a place).
Token(type, start) == [type |-> type, start |-> start]

\* The parser is a zero-initialised global: type 0 is TOKEN_LEFT_PAREN.
ZeroToken == Token("LEFT_PAREN", 0)

VARIABLES
    parser,     \* the global Parser: previous, current, hadError, panicMode
    stderr,     \* the diagnostics written during the current compile call
    chunk,      \* the chunk being compiled into: code, constBase, constants
    scanned,    \* the tokens the scanner has yielded in this compilation
    stack,      \* the frames of the functions waiting for a callee
    ret,        \* what the last compile call returned: "none", "true", "false"
    event,      \* the parser operation the last step performed
    heap,       \* the live objects, by address
    vmObjects,  \* vm.objects: the head of the tracked-object list (0: NULL)
    vmStrings,  \* vm.strings: the keys of the intern table
    calls       \* the calls of the string functions made so far

compilerVars == <<parser, stderr, chunk, scanned, stack, ret, event>>
objectVars == <<heap, vmObjects, vmStrings, calls>>

\* ------------------------------------------------------------------ scanner

\* What is known of an arithmetic token stream after reading `hist`:
\* whether it is still a prefix of an expression (numbers, binary operators,
\* prefix minus, parentheses), the open parentheses, and whether an operand
\* must come next (at the start, after an operator or a minus, after an
\* opening parenthesis).
ArithScan(hist) ==
    LET n == Len(hist)
        \* an operand is due at place i
        due(i) == i = 1 \/ hist[i - 1].type \in BinaryTypes \cup {"LEFT_PAREN"}
        \* the parentheses open before place i
        open(i) == Cardinality({j \in 1..(i - 1) : hist[j].type = "LEFT_PAREN"})
                     - Cardinality({j \in 1..(i - 1) : hist[j].type = "RIGHT_PAREN"})
        fits(i) == IF due(i)
                   THEN hist[i].type \in {"NUMBER", "LEFT_PAREN", "MINUS"}
                   ELSE \/ hist[i].type \in BinaryTypes
                        \/ hist[i].type = "RIGHT_PAREN" /\ open(i) > 0
    IN  [ok |-> \A i \in 1..n : fits(i),
         depth |-> open(n + 1),
         operand |-> due(n + 1)]

\* The types scanToken may yield after `hist`: end-of-input for ever once it
\* was yielded; any type while the stream is short; past that, only what
\* keeps the stream a prefix of an arithmetic expression.
scanToken(hist) ==
    LET n == Len(hist) IN
    IF n > 0 /\ hist[n].type = "EOF" THEN {Token("EOF", n)}
    ELSE {Token("EOF", n + 1)} \cup
         IF n < MaxTokens THEN {Token(ty, n + 1) : ty \in TokenTypes}
         ELSE IF n < MaxExprTokens /\ ArithScan(hist).ok
         THEN {Token(ty, n + 1) :
                 ty \in {x \in ArithTypes : ArithScan(Append(hist, Token(x, n + 1))).ok}}
         ELSE {}

\* The history after the scanner yielded `t`.
Scanned(hist, t) ==
    IF Len(hist) > 0 /\ hist[Len(hist)].type = "EOF" THEN hist ELSE Append(hist, t)

RECURSIVE ScannedAll(_, _)
ScannedAll(hist, run) ==
    IF run = <<>> THEN hist ELSE ScannedAll(Scanned(hist, Head(run)), Tail(run))

\* The token sequences one call of advance may read: error tokens, then the
\* first token that is none.
RECURSIVE ScanRuns(_)
ScanRuns(hist) ==
    UNION { IF t.type = "ERROR"
            THEN { <<t>> \o r : r \in ScanRuns(Scanned(hist, t)) }
            ELSE { <<t>> } : t \in scanToken(hist) }

\* ------------------------------------------------------------ error reports

\* errorAt without the line that sets hadError.
errorAt_noHadError(s, token, message) ==
    IF s.parser.panicMode THEN s
    ELSE [parser |-> [s.parser EXCEPT !.panicMode = TRUE],
          stderr |-> Append(s.stderr, [at |-> token.type, msg |-> message])]

\* errorAt without the early return in panic mode.
errorAt_noPanicGuard(s, token, message) ==
    [parser |-> [s.parser EXCEPT !.panicMode = TRUE, !.hadError = TRUE],
     stderr |-> Append(s.stderr, [at |-> token.type, msg |-> message])]

\* s is the pair [parser, stderr] the error functions read and write.
errorAt(s, token, message) ==
    IF s.parser.panicMode THEN s
    ELSE [parser |-> [s.parser EXCEPT !.panicMode = TRUE, !.hadError = TRUE],
          stderr |-> Append(s.stderr, [at |-> token.type, msg |-> message])]

\* error that reports nothing.
error_none(s, message) == s

error(s, message) == errorAt(s, s.parser.current, message)

errorAtCurrent(s, message) == s

\* advance, reading the tokens of `run` from the scanner.
RECURSIVE advanceLoop(_, _)
advanceLoop(s, run) ==
    LET s1 == [s EXCEPT !.parser.current = Head(run)] IN
    IF Head(run).type # "ERROR" THEN s1
    ELSE advanceLoop(errorAtCurrent(s1, "scanner error"), Tail(run))

advance(s, run) ==
    advanceLoop([s EXCEPT !.parser.previous = s.parser.current], run)

\* consume: TRUE when the current token has the expected type.
consumeMatches(s, type) == s.parser.current.type = type

consume(s, type, message, run) ==
    IF consumeMatches(s, type) THEN advance(s, run)
    ELSE errorAtCurrent(s, message)

\* ---------------------------------------------------------------- emission

OpByte(op) == [op |-> op]
OperandByte(n) == [operand |-> n]

\* writeChunk appends one byte to the chunk's code.
emitByte(c, byte) == [c EXCEPT !.code = Append(@, byte)]

emitBytes(c, byte1, byte2) == emitByte(emitByte(c, byte1), byte2)

emitReturn(c) == emitByte(c, OpByte("OP_RETURN"))

\* The number of constants in the chunk's pool.
ConstantCount(c) == c.constBase + Len(c.constants)

\* addConstant appends the value and returns its index.
addConstant(c, value) == [c EXCEPT !.constants = Append(@, value)]

\* makeConstant with the index compared by >= in place of >.
makeConstant_offByOne(m, value) ==
    LET constantIndex == ConstantCount(m.chunk)
        c1 == addConstant(m.chunk, value)
    IN  IF constantIndex >= UINT8_MAX
        THEN [chunk |-> c1, s |-> error(m.s, "Too many constants in one chunk."),
              operand |-> 0]
        ELSE [chunk |-> c1, s |-> m.s, operand |-> constantIndex]

\* makeConstant: m is [chunk, s]; the result adds the operand to emit.
makeConstant(m, value) ==
    LET constantIndex == ConstantCount(m.chunk)
        c1 == addConstant(m.chunk, value)
    IN  IF constantIndex > UINT8_MAX
        THEN [chunk |-> c1, s |-> error(m.s, "Too many constants in one chunk."),
              operand |-> 0]
        ELSE [chunk |-> c1, s |-> m.s, operand |-> constantIndex]

emitConstant(m, value) ==
    LET k == makeConstant(m, value) IN
    [chunk |-> emitBytes(k.chunk, OpByte("OP_CONSTANT"), OperandByte(k.operand)),
     s |-> k.s]

\* ------------------------------------------------------------------- rules

Rule(prefix, infix, precedence) ==
    [prefix |-> prefix, infix |-> infix, precedence |-> precedence]

\* The rule table with end-of-input as a binary operator.
getRule_eofInfix(type) ==
    CASE type = "EOF" -> Rule("NULL", "binary", PREC_TERM)
      [] type = "LEFT_PAREN" -> Rule("grouping", "NULL", PREC_NONE)
      [] type = "MINUS" -> Rule("unary", "binary", PREC_TERM)
      [] type = "PLUS" -> Rule("NULL", "binary", PREC_TERM)
      [] type = "SLASH" -> Rule("NULL", "binary", PREC_FACTOR)
      [] type = "STAR" -> Rule("NULL", "binary", PREC_FACTOR)
      [] type = "NUMBER" -> Rule("number", "NULL", PREC_NONE)
      [] type \in {"FALSE", "NIL", "TRUE"} -> Rule("literal", "NULL", PREC_NONE)
      [] OTHER -> Rule("NULL", "NULL", PREC_NONE)

\* The rule table with a precedence for a token that has no infix rule.
getRule_precedenceWithoutInfix(type) ==
    CASE type = "SEMICOLON" -> Rule("NULL", "NULL", PREC_TERM)
      [] type = "LEFT_PAREN" -> Rule("grouping", "NULL", PREC_NONE)
      [] type = "MINUS" -> Rule("unary", "binary", PREC_TERM)
      [] type = "PLUS" -> Rule("NULL", "binary", PREC_TERM)
      [] type = "SLASH" -> Rule("NULL", "binary", PREC_FACTOR)
      [] type = "STAR" -> Rule("NULL", "binary", PREC_FACTOR)
      [] type = "NUMBER" -> Rule("number", "NULL", PREC_NONE)
      [] type \in {"FALSE", "NIL", "TRUE"} -> Rule("literal", "NULL", PREC_NONE)
      [] OTHER -> Rule("NULL", "NULL", PREC_NONE)

getRule(type) ==
    CASE type = "LEFT_PAREN" -> Rule("grouping", "NULL", PREC_NONE)
      [] type = "MINUS" -> Rule("unary", "binary", PREC_TERM)
      [] type = "PLUS" -> Rule("NULL", "binary", PREC_TERM)
      [] type = "SLASH" -> Rule("NULL", "binary", PREC_FACTOR)
      [] type = "STAR" -> Rule("NULL", "binary", PREC_FACTOR)
      [] type = "NUMBER" -> Rule("number", "NULL", PREC_NONE)
      [] type \in {"FALSE", "NIL", "TRUE"} -> Rule("literal", "NULL", PREC_NONE)
      [] OTHER -> Rule("NULL", "NULL", PREC_NONE)

\* ------------------------------------------------------------------ frames

Frame(fn, precedence, operator) ==
    [fn |-> fn, precedence |-> precedence, operator |-> operator]

Top == stack[Len(stack)]
Pop == SubSeq(stack, 1, Len(stack) - 1)

\* strtod of the lexeme at `start`: the number written there.
NUMBER_VAL(start) == [type |-> "VAL_NUMBER", number |-> start]

number(m) == emitConstant(m, NUMBER_VAL(m.s.parser.previous.start))

literal(c, type) ==
    CASE type = "TRUE" -> emitByte(c, OpByte("OP_TRUE"))
      [] type = "FALSE" -> emitByte(c, OpByte("OP_FALSE"))
      [] type = "NIL" -> emitByte(c, OpByte("OP_NIL"))
      [] OTHER -> c

binaryOp(c, operator) ==
    CASE operator = "PLUS" -> emitByte(c, OpByte("OP_ADD"))
      [] operator = "MINUS" -> emitByte(c, OpByte("OP_SUB"))
      [] operator = "STAR" -> emitByte(c, OpByte("OP_MULT"))
      [] operator = "SLASH" -> emitByte(c, OpByte("OP_DIV"))
      [] OTHER -> c

unaryOp(c, operatorType) ==
    CASE operatorType = "MINUS" -> emitByte(c, OpByte("OP_NEGATE"))
      [] OTHER -> c

\* binary without the + 1: the operators would associate to the right.
binaryOperandPrecedence_same(rule) == rule.precedence

\* The precedence binary compiles its right operand at.
binaryOperandPrecedence(rule) == rule.precedence + 1

\* unary compiling its operand as a whole expression.
unaryOperandPrecedence_assign == PREC_ASSIGN

\* The precedence unary compiles its operand at.
unaryOperandPrecedence == PREC_UNARY

S == [parser |-> parser, stderr |-> stderr]

\* The constant counts of the chunks compile is handed: a fresh chunk, and
\* one whose pool is one short of the one-byte index range.
ConstBases == {0, UINT8_MAX}

\* ----------------------------------------------------------------- actions

\* compile is entered: the scanner is set to the start of the source, and
\* the chunk is the caller's.
compile ==
    /\ stack = <<>>
    /\ event # "null call"
    /\ \E base \in ConstBases :
         chunk' = [code |-> <<>>, constBase |-> base, constants |-> <<>>]
    /\ scanned' = <<>>
    /\ stderr' = <<>>
    /\ stack' = <<Frame("compileAdvance", PREC_NONE, "NONE")>>
    /\ ret' = "none"
    /\ event' = "compile"
    /\ UNCHANGED parser
    /\ UNCHANGED objectVars

\* compile: its first advance, up to its call of expression().
compileAdvance ==
    /\ stack # <<>> /\ Top.fn = "compileAdvance"
    /\ \E run \in ScanRuns(scanned) :
         LET s1 == advance(S, run) IN
         /\ parser' = s1.parser
         /\ stderr' = s1.stderr
         /\ scanned' = ScannedAll(scanned, run)
    /\ stack' = <<Frame("compile", PREC_NONE, "NONE"),
                  Frame("parsePrecedence", PREC_ASSIGN, "NONE")>>
    /\ event' = "advance"
    /\ UNCHANGED <<chunk, ret>>
    /\ UNCHANGED objectVars

\* parsePrecedence, from its entry to the call of the prefix rule.
parsePrecedence ==
    /\ stack # <<>> /\ Top.fn = "parsePrecedence"
    /\ \E run \in ScanRuns(scanned) :
         LET s1 == advance(S, run)
             prefixRule == getRule(s1.parser.previous.type).prefix
             loop == Append(Pop, Frame("infixLoop", Top.precedence, "NONE"))
         IN
         /\ scanned' = ScannedAll(scanned, run)
         /\ CASE prefixRule = "NULL" ->
                   LET s2 == error(s1, "Expected expression") IN
                   /\ parser' = s2.parser /\ stderr' = s2.stderr
                   /\ chunk' = chunk
                   /\ stack' = Pop
                   /\ event' = "expected expression"
              [] prefixRule = "number" ->
                   LET m == number([chunk |-> chunk, s |-> s1]) IN
                   /\ parser' = m.s.parser /\ stderr' = m.s.stderr
                   /\ chunk' = m.chunk
                   /\ stack' = loop
                   /\ event' = "number"
              [] prefixRule = "literal" ->
                   /\ parser' = s1.parser /\ stderr' = s1.stderr
                   /\ chunk' = literal(chunk, s1.parser.previous.type)
                   /\ stack' = loop
                   /\ event' = "literal"
              [] prefixRule = "grouping" ->
                   /\ parser' = s1.parser /\ stderr' = s1.stderr
                   /\ chunk' = chunk
                   /\ stack' = loop \o <<Frame("grouping", PREC_NONE, "NONE"),
                                         Frame("parsePrecedence", PREC_ASSIGN, "NONE")>>
                   /\ event' = "grouping"
              [] prefixRule = "unary" ->
                   /\ parser' = s1.parser /\ stderr' = s1.stderr
                   /\ chunk' = chunk
                   /\ stack' = loop \o <<Frame("unary", PREC_NONE, s1.parser.previous.type),
                                         Frame("parsePrecedence", unaryOperandPrecedence, "NONE")>>
                   /\ event' = "unary"
    /\ ret' = ret
    /\ UNCHANGED objectVars

\* One test of parsePrecedence's while loop: leave, or advance and call the
\* infix rule (binary, up to its call of parsePrecedence).
infixLoop ==
    /\ stack # <<>> /\ Top.fn = "infixLoop"
    /\ IF Top.precedence <= getRule(parser.current.type).precedence
       THEN \E run \in ScanRuns(scanned) :
              LET s1 == advance(S, run)
                  operator == s1.parser.previous.type
                  rule == getRule(operator)
              IN
              /\ scanned' = ScannedAll(scanned, run)
              /\ parser' = s1.parser /\ stderr' = s1.stderr
              /\ IF rule.infix = "binary"
                 THEN /\ stack' = stack \o
                           <<Frame("binary", PREC_NONE, operator),
                             Frame("parsePrecedence", binaryOperandPrecedence(rule), "NONE")>>
                      /\ event' = "infix"
                 ELSE \* a call through a NULL function pointer: the process ends
                      /\ stack' = <<>>
                      /\ event' = "null call"
       ELSE /\ stack' = Pop
            /\ event' = "loop exit"
            /\ UNCHANGED <<parser, stderr, scanned>>
    /\ UNCHANGED <<chunk, ret>>
    /\ UNCHANGED objectVars

\* binary, after its right operand is compiled.
binary ==
    /\ stack # <<>> /\ Top.fn = "binary"
    /\ chunk' = binaryOp(chunk, Top.operator)
    /\ stack' = Pop
    /\ event' = "binary"
    /\ UNCHANGED <<parser, stderr, scanned, ret>>
    /\ UNCHANGED objectVars

\* unary, after its operand is compiled.
unary ==
    /\ stack # <<>> /\ Top.fn = "unary"
    /\ chunk' = unaryOp(chunk, Top.operator)
    /\ stack' = Pop
    /\ event' = "unary emit"
    /\ UNCHANGED <<parser, stderr, scanned, ret>>
    /\ UNCHANGED objectVars

\* grouping, after its inner expression is compiled.
grouping ==
    /\ stack # <<>> /\ Top.fn = "grouping"
    /\ \E run \in ScanRuns(scanned) :
         LET s1 == consume(S, "RIGHT_PAREN", "Expected ')' after expression.", run) IN
         /\ parser' = s1.parser /\ stderr' = s1.stderr
         /\ IF consumeMatches(S, "RIGHT_PAREN")
            THEN scanned' = ScannedAll(scanned, run) /\ event' = "consumed"
            ELSE scanned' = scanned /\ event' = "consume mismatch"
    /\ stack' = Pop
    /\ UNCHANGED <<chunk, ret>>
    /\ UNCHANGED objectVars

\* compile, after expression() returned.
compileReturn ==
    /\ stack # <<>> /\ Top.fn = "compile"
    /\ \E run \in ScanRuns(scanned) :
         LET s1 == consume(S, "EOF", "Expected end of expression.", run) IN
         /\ parser' = s1.parser /\ stderr' = s1.stderr
         /\ IF consumeMatches(S, "EOF")
            THEN scanned' = ScannedAll(scanned, run) /\ event' = "consumed"
            ELSE scanned' = scanned /\ event' = "consume mismatch"
         /\ ret' = IF s1.parser.hadError THEN "false" ELSE "true"
    /\ chunk' = emitReturn(chunk)
    /\ stack' = Pop
    /\ UNCHANGED objectVars

\* ----------------------------------------------------------------- objects
\*
\* An object is [type, next, length, chars, hash].  chars holds length + 1
\* bytes, the last one the terminator.  next is the address of the next
\* tracked object, 0 for NULL, Uninitialized where nothing was stored.  A
\* hash is a 32-bit value kept as its two 16-bit halves.

\* The bytes strings are made of.
Bytes == {97, 98}
Bytes0 == Bytes \cup {0}

NULL == 0
Uninitialized == -1

\* The exclusive or of two values below 2^n.
RECURSIVE Xor(_, _, _)
Xor(a, b, n) ==
    IF n = 0 THEN 0
    ELSE (IF (a % 2) = (b % 2) THEN 0 ELSE 1) + 2 * Xor(a \div 2, b \div 2, n - 1)

\* hash ^= byte
HashXor(h, byte) == [hi |-> h.hi, lo |-> Xor(h.lo, byte, 16)]

\* hash *= 16777619, modulo 2^32: 16777619 = 256 * 2^16 + 403.
HashMul(h) ==
    LET p == h.lo * 403 IN
    [hi |-> (h.hi * 403 + h.lo * 256 + (p \div 65536)) % 65536, lo |-> p % 65536]

\* 2166136261 = 33052 * 2^16 + 40389.
RECURSIVE hashLoop(_, _, _, _)
hashLoop(hash, key, i, length) ==
    IF i > length THEN hash
    ELSE hashLoop(HashMul(HashXor(hash, key[i])), key, i + 1, length)

hashString(key, length) == hashLoop([hi |-> 33052, lo |-> 40389], key, 1, length)

\* A hash field nothing was stored in.
GarbageHash == [hi |-> 0, lo |-> 0]

\* v is the record [heap, objects, strings]: the objects and the two roots.
VM == [heap |-> heap, objects |-> vmObjects, strings |-> vmStrings]

\* reallocate(NULL, 0, size): the lowest address that is not in use.
reallocate(h) == CHOOSE a \in 1..(Cardinality(DOMAIN h) + 1) : a \notin DOMAIN h

\* free(pointer)
free(h, a) == [x \in DOMAIN h \ {a} |-> h[x]]

NewObject(next, length, chars, hash) ==
    [type |-> "OBJ_STRING", next |-> next, length |-> length, chars |-> chars,
     hash |-> hash]

\* The first length bytes of a buffer.
Prefix(chars, length) == SubSeq(chars, 1, length)

\* tableFindString: the key with this length, hash and bytes, or NULL.
tableFindString(v, chars, length, hash) ==
    LET found == {k \in v.strings :
                    /\ v.heap[k].length = length
                    /\ v.heap[k].hash = hash
                    /\ Prefix(v.heap[k].chars, length) = Prefix(chars, length)}
    IN  IF found = {} THEN NULL ELSE CHOOSE k \in found : TRUE

\* tableSet(&vm.strings, key, NIL_VAL)
tableSet(v, key) == [v EXCEPT !.strings = @ \cup {key}]

\* allocateObject: the new object is put at the head of vm.objects.
allocateObject(v, a, length, chars, hash) ==
    [v EXCEPT !.heap = a :> NewObject(v.objects, length, chars, hash) @@ v.heap,
              !.objects = a]

\* xallocateObject that threads the object onto vm.objects.
xallocateObject_linked(v, a, length, chars, hash) ==
    allocateObject(v, a, length, chars, hash)

\* xallocateObject: the new object's next field is not written.
xallocateObject(v, a, length, chars, hash) ==
    [v EXCEPT !.heap = a :> NewObject(Uninitialized, length, chars, hash) @@ v.heap]

\* The chars array (length + 1 bytes, `garbage` where nothing is written)
\* after the copy loop of allocateString, which runs to the terminator of
\* `chars`, and after the terminator is stored at index length.
allocateStringChars(chars, length, garbage) ==
    [i \in 1..(length + 1) |->
        IF i = length + 1 THEN 0
        ELSE IF i <= Len(chars) THEN chars[i]
        ELSE garbage[i - Len(chars)]]

\* The bytes the copy loop of allocateString writes past the chars array.
allocateStringOverrun(chars, length) ==
    IF Len(chars) > length + 1 THEN Len(chars) - (length + 1) ELSE 0

\* allocateString(chars, length): chars is the buffer up to its terminator.
allocateString(v, chars, length, garbage) ==
    LET a == reallocate(v.heap)
        bytes == allocateStringChars(chars, length, garbage)
    IN  [vm |-> allocateObject(v, a, length, bytes, hashString(bytes, length)),
         ref |-> a]

\* writeToString: the first length bytes of chars, the terminator, the hash.
writeToString(string, chars) ==
    LET bytes == [i \in 1..(string.length + 1) |->
                     IF i = string.length + 1 THEN 0 ELSE chars[i]]
    IN  [string EXCEPT !.chars = bytes, !.hash = hashString(bytes, string.length)]

\* storeString without the two lines that link the string.
storeString_noLink(v, string) == tableSet(v, string)

\* storeString: enter the string in the table, put it at the head of
\* vm.objects.
storeString(v, string) ==
    LET v1 == tableSet(v, string) IN
    [v1 EXCEPT !.heap[string].next = v1.objects, !.objects = string]

\* xallocateString(length), and the caller's writes to the new string: its
\* bytes, and its hash or nothing.
xallocateString(v, length, chars, hash) ==
    LET a == reallocate(v.heap) IN
    [vm |-> xallocateObject(v, a, length,
               [i \in 1..(length + 1) |-> IF i = length + 1 THEN 0 ELSE chars[i]],
               hash),
     ref |-> a]

validateString(v, string) ==
    LET interned == tableFindString(v, v.heap[string].chars, v.heap[string].length,
                                    v.heap[string].hash)
    IN  storeString(v, IF interned # NULL THEN interned ELSE string)

takeString(v, chars, length, garbage) == allocateString(v, chars, length, garbage)

\* copyString that enters every string it builds in the table.
copyString_noLookup(v, chars, length) ==
    LET t == xallocateString(v, length, chars, GarbageHash)
        temp == t.ref
        v1 == [t.vm EXCEPT !.heap[temp] = writeToString(@, chars)]
    IN  [vm |-> tableSet(v1, temp), ref |-> temp]

copyString(v, chars, length) ==
    LET t == xallocateString(v, length, chars, GarbageHash)
        temp == t.ref
        v1 == [t.vm EXCEPT !.heap[temp] = writeToString(@, chars)]
        interned == tableFindString(v1, v1.heap[temp].chars, length, v1.heap[temp].hash)
    IN  IF interned # NULL
        THEN [vm |-> [v1 EXCEPT !.heap = free(@, temp)], ref |-> interned]
        ELSE [vm |-> tableSet(v1, temp), ref |-> temp]

\* ------------------------------------------------------------ object bounds

\* Longest string.
MaxLen == 1
\* Most calls of the string functions.
MaxCalls == 4

\* The byte sequences of a given length.
BytesOfLen(n) == [1..n -> Bytes]
Garbage(n) == [1..n -> Bytes0]

Call(op, chars, ref, overrun) ==
    [op |-> op, chars |-> chars, ref |-> ref, overrun |-> overrun]

\* The strings built by xallocateString that validateString has not been
\* called on.
Pending ==
    {calls[i].ref : i \in {j \in 1..Len(calls) :
        /\ calls[j].op = "xallocateString"
        /\ \A k \in (j + 1)..Len(calls) :
              ~(calls[k].op = "validateString" /\ calls[k].ref = calls[j].ref)}}

Content(h, a) == Prefix(h[a].chars, h[a].length)

\* --------------------------------------------------------- object actions

CallCopyString ==
    /\ Len(calls) < MaxCalls
    /\ \E length \in 0..MaxLen : \E chars \in BytesOfLen(length) :
         LET r == copyString(VM, chars, length) IN
         /\ heap' = r.vm.heap
         /\ vmObjects' = r.vm.objects
         /\ vmStrings' = r.vm.strings
         /\ calls' = Append(calls, Call("copyString", chars, r.ref, 0))
    /\ UNCHANGED compilerVars

\* takeString on a buffer whose terminator stands after 0..length+2 bytes.
CallTakeString ==
    /\ Len(calls) < MaxCalls
    /\ \E length \in 0..MaxLen : \E n \in 0..(MaxLen + 1) : \E chars \in BytesOfLen(n) :
         \E garbage \in Garbage(IF n < length THEN length - n ELSE 0) :
         LET r == takeString(VM, chars, length, garbage) IN
         /\ heap' = r.vm.heap
         /\ vmObjects' = r.vm.objects
         /\ vmStrings' = r.vm.strings
         /\ calls' = Append(calls, Call("takeString", Content(r.vm.heap, r.ref), r.ref,
                                        allocateStringOverrun(chars, length)))
    /\ UNCHANGED compilerVars

\* xallocateString, and the caller filling the string: the hash field is
\* written by no function the caller can reach, so it holds the string's hash
\* or anything else.
CallXallocateString ==
    /\ Len(calls) < MaxCalls - 1
    /\ \E length \in 0..MaxLen : \E chars \in BytesOfLen(length) :
         \E hash \in {hashString(chars, length), GarbageHash} :
         LET r == xallocateString(VM, length, chars, hash) IN
         /\ heap' = r.vm.heap
         /\ vmObjects' = r.vm.objects
         /\ vmStrings' = r.vm.strings
         /\ calls' = Append(calls, Call("xallocateString", chars, r.ref, 0))
    /\ UNCHANGED compilerVars

CallValidateString ==
    /\ Len(calls) < MaxCalls
    /\ \E string \in Pending :
         LET v1 == validateString(VM, string) IN
         /\ heap' = v1.heap
         /\ vmObjects' = v1.objects
         /\ vmStrings' = v1.strings
         /\ calls' = Append(calls, Call("validateString", Content(heap, string), string, 0))
    /\ UNCHANGED compilerVars

Init ==
    /\ parser = [previous |-> ZeroToken, current |-> ZeroToken,
                 hadError |-> FALSE, panicMode |-> FALSE]
    /\ stderr = <<>>
    /\ chunk = [code |-> <<>>, constBase |-> 0, constants |-> <<>>]
    /\ scanned = <<>>
    /\ stack = <<>>
    /\ ret = "none"
    /\ event = "none"
    /\ heap = <<>>
    /\ vmObjects = NULL
    /\ vmStrings = {}
    /\ calls = <<>>

Next ==
    \/ compile
    \/ compileAdvance
    \/ parsePrecedence
    \/ infixLoop
    \/ binary
    \/ unary
    \/ grouping
    \/ compileReturn

ObjectNext ==
    \/ CallCopyString
    \/ CallTakeString
    \/ CallXallocateString
    \/ CallValidateString

vars == <<parser, stderr, chunk, scanned, stack, ret, event,
          heap, vmObjects, vmStrings, calls>>

\* The compiler.
Spec == Init /\ [][Next]_vars

\* The compiler, run as the sequential program it is: while a step can be
\* taken, one is taken.
FairSpec == Spec /\ WF_vars(Next)

\* The string functions.
ObjectSpec == Init /\ [][ObjectNext]_vars

\* copyString alone.
CopyNext == CallCopyString

CopySpec == Init /\ [][CopyNext]_vars

\* takeString and copyString: tracked allocations and interning requests.
TakeCopyNext ==
    \/ CallTakeString
    \/ CallCopyString

TakeCopySpec == Init /\ [][TakeCopyNext]_vars

\* ------------------------------------------------- reference: the grammar
\*
\*   expr   ::= term   { ("+" | "-") term }
\*   term   ::= factor { ("*" | "/") factor }
\*   factor ::= NUMBER | "(" expr ")"
\*
\* read left to right, each operator written after its two operands.  A
\* result is [ok, pos, code]: pos is the next unread token, code the postfix
\* form, a number written as the index of its token.

RefFail == [ok |-> FALSE, pos |-> 0, code |-> <<>>]

RefOpcode(type) ==
    CASE type = "PLUS" -> "OP_ADD"
      [] type = "MINUS" -> "OP_SUB"
      [] type = "STAR" -> "OP_MULT"
      [] type = "SLASH" -> "OP_DIV"

RECURSIVE RefExpr(_, _), RefExprRest(_, _), RefTerm(_, _), RefTermRest(_, _),
          RefFactor(_, _)

RefFactor(toks, i) ==
    IF i > Len(toks) THEN RefFail
    ELSE IF toks[i].type = "NUMBER"
    THEN [ok |-> TRUE, pos |-> i + 1, code |-> <<[num |-> i]>>]
    ELSE IF toks[i].type = "LEFT_PAREN"
    THEN LET e == RefExpr(toks, i + 1) IN
         IF e.ok /\ e.pos <= Len(toks) /\ toks[e.pos].type = "RIGHT_PAREN"
         THEN [e EXCEPT !.pos = @ + 1]
         ELSE RefFail
    ELSE RefFail

RefTermRest(toks, acc) ==
    IF acc.ok /\ acc.pos <= Len(toks) /\ toks[acc.pos].type \in {"STAR", "SLASH"}
    THEN LET f == RefFactor(toks, acc.pos + 1) IN
         IF f.ok
         THEN RefTermRest(toks, [ok |-> TRUE, pos |-> f.pos,
                  code |-> acc.code \o f.code \o <<[op |-> RefOpcode(toks[acc.pos].type)]>>])
         ELSE RefFail
    ELSE acc

RefTerm(toks, i) == RefTermRest(toks, RefFactor(toks, i))

RefExprRest(toks, acc) ==
    IF acc.ok /\ acc.pos <= Len(toks) /\ toks[acc.pos].type \in {"PLUS", "MINUS"}
    THEN LET t == RefTerm(toks, acc.pos + 1) IN
         IF t.ok
         THEN RefExprRest(toks, [ok |-> TRUE, pos |-> t.pos,
                  code |-> acc.code \o t.code \o <<[op |-> RefOpcode(toks[acc.pos].type)]>>])
         ELSE RefFail
    ELSE acc

RefExpr(toks, i) == RefExprRest(toks, RefTerm(toks, i))

\* The tokens of the stream before end-of-input.
Source(hist) == SelectSeq(hist, LAMBDA t : t.type # "EOF")

Types(hist) == [i \in 1..Len(hist) |-> hist[i].type]

\* The stream is a whole expression of the grammar.
WellFormed(hist) ==
    LET r == RefExpr(Source(hist), 1) IN r.ok /\ r.pos = Len(Source(hist)) + 1

\* How many number tokens stand before token i.
NumbersBefore(toks, i) == Cardinality({j \in 1..(i - 1) : toks[j].type = "NUMBER"})

\* The bytes of a postfix form: a number is a constant load whose operand is
\* its rank among the numbers of the source.
RECURSIVE RefBytes(_, _)
RefBytes(toks, code) ==
    IF code = <<>> THEN <<>>
    ELSE LET h == Head(code) IN
         (IF "num" \in DOMAIN h
          THEN <<OpByte("OP_CONSTANT"), OperandByte(NumbersBefore(toks, h.num))>>
          ELSE <<OpByte(h.op)>>) \o RefBytes(toks, Tail(code))

\* The values of the number literals, in source order.
RefConstants(toks) ==
    LET nums == SelectSeq(toks, LAMBDA t : t.type = "NUMBER") IN
    [i \in 1..Len(nums) |-> NUMBER_VAL(nums[i].start)]

Returned == ret # "none"

\* ------------------------------------------------------------------ claims

\* C1: for a well-formed expression over numbers, + - * / and parentheses,
\* compiled into a fresh chunk, the code compile leaves is the postfix form of
\* the expression under standard precedence and left associativity followed
\* by the return, and the pool holds the literals in source order.
C1_PostfixOfExpression ==
    (Returned /\ WellFormed(scanned) /\ chunk.constBase = 0) =>
        /\ chunk.code = RefBytes(Source(scanned), RefExpr(Source(scanned), 1).code)
                           \o <<OpByte("OP_RETURN")>>
        /\ chunk.constants = RefConstants(Source(scanned))

\* "(1 + 2) * 3" was compiled: add stands before multiply.
C1_Witness ==
    /\ Returned
    /\ chunk.constBase = 0
    /\ Types(scanned) = <<"LEFT_PAREN", "NUMBER", "PLUS", "NUMBER", "RIGHT_PAREN",
                          "STAR", "NUMBER", "EOF">>
    /\ chunk.code = <<OpByte("OP_CONSTANT"), OperandByte(0),
                      OpByte("OP_CONSTANT"), OperandByte(1), OpByte("OP_ADD"),
                      OpByte("OP_CONSTANT"), OperandByte(2), OpByte("OP_MULT"),
                      OpByte("OP_RETURN")>>

\* C2: a consume whose expected type differs from the current token's leaves
\* hadError true.
C2_ConsumeMismatchRecordsError ==
    event = "consume mismatch" => parser.hadError

\* C3: when parsePrecedence advances onto a token with no prefix rule (the
\* current token at its entry), the call returns at once (its frame is gone, no byte is emitted, no rule is
\* called), hadError is true, "Expected expression" is written unless the
\* parser was already in panic mode, and a compile call that ends with
\* hadError set returns false.
C3_ExpectedExpression ==
    /\ [][ (stack # <<>> /\ Top.fn = "parsePrecedence"
              /\ getRule(parser.current.type).prefix = "NULL")
           => /\ parser'.hadError /\ parser'.panicMode
              /\ stack' = Pop
              /\ chunk' = chunk
              /\ (~parser.panicMode =>
                    stderr' = Append(stderr, [at |-> parser'.current.type,
                                              msg |-> "Expected expression"]))
         ]_vars
    /\ [][ (stack # <<>> /\ parser.hadError) => parser'.hadError ]_vars
    /\ [][ (~Returned /\ Returned' /\ parser'.hadError) => ret' = "false" ]_vars

\* "1 +" was compiled: the dangling operator's operand is missing.
C3_Witness ==
    /\ ret = "false"
    /\ Types(scanned) = <<"NUMBER", "PLUS", "EOF">>
    /\ stderr = <<[at |-> "EOF", msg |-> "Expected expression"]>>
    /\ chunk.code = <<OpByte("OP_CONSTANT"), OperandByte(0), OpByte("OP_ADD"),
                      OpByte("OP_RETURN")>>

\* C4: compile of a well-formed expression into a fresh chunk returns true,
\* whatever was compiled before.
C4_ResultDependsOnSourceOnly ==
    (Returned /\ WellFormed(scanned) /\ chunk.constBase = 0) => ret = "true"

\* C5: once the scanner has yielded an error token, hadError is true.
C5_ErrorTokenRecordsError ==
    (\E i \in 1..Len(scanned) : scanned[i].type = "ERROR") => parser.hadError

\* C6: within a compilation, a step taken in panic mode changes neither flag
\* and writes no diagnostic; hadError never goes back to false; panic mode
\* implies hadError; at most one diagnostic is written.
C6_PanicModeSwallowsErrors ==
    /\ [][ (stack # <<>> /\ parser.panicMode)
           => (parser'.panicMode /\ parser'.hadError /\ stderr' = stderr) ]_vars
    /\ [][ (stack # <<>> /\ parser.hadError) => parser'.hadError ]_vars
    /\ [](parser.panicMode => parser.hadError)
    /\ [](Len(stderr) <= 1)

\* "Expected expression" was raised after "Too many constants" in one
\* compilation, and only the first was written.
C6_Witness ==
    /\ event = "expected expression"
    /\ Len(stderr) = 1
    /\ stderr[1].msg = "Too many constants in one chunk."
    /\ parser.panicMode /\ parser.hadError

\* C7: a number literal (parsePrecedence entered with a number as current
\* token) emits OP_CONSTANT and one operand; the operand is the
\* literal's pool index while that is at most 255; past it the operand is 0,
\* hadError is set ("Too many constants in one chunk." is written unless the
\* parser was already in panic mode), the parsePrecedence call goes on to its
\* infix loop, and compile returns false.
C7_ConstantLoad ==
    /\ [][ (stack # <<>> /\ Top.fn = "parsePrecedence"
              /\ getRule(parser.current.type).prefix = "number")
           => LET index == ConstantCount(chunk) IN
              /\ ConstantCount(chunk') = index + 1
              /\ chunk'.code = chunk.code \o
                    <<OpByte("OP_CONSTANT"),
                      OperandByte(IF index <= 255 THEN index ELSE 0)>>
              /\ stack' = Append(Pop, Frame("infixLoop", Top.precedence, "NONE"))
              /\ IF index <= 255
                 THEN /\ parser'.hadError = parser.hadError
                      /\ parser'.panicMode = parser.panicMode
                      /\ stderr' = stderr
                 ELSE /\ parser'.hadError /\ parser'.panicMode
                      /\ (~parser.panicMode =>
                            stderr' = Append(stderr,
                               [at |-> parser'.current.type,
                                msg |-> "Too many constants in one chunk."]))
         ]_vars
    /\ [](\A i \in 1..Len(chunk.code) :
            "operand" \in DOMAIN chunk.code[i] =>
               /\ chunk.code[i].operand \in 0..255
               /\ i > 1 /\ chunk.code[i - 1] = OpByte("OP_CONSTANT"))
    /\ []((Returned /\ ConstantCount(chunk) > UINT8_MAX + 1) => ret = "false")

\* "1 + 2 * 3" was compiled into a chunk that held 255 constants: the second
\* and third literal got operand 0, and the operators were still compiled.
C7_Witness ==
    /\ ret = "false"
    /\ chunk.constBase = UINT8_MAX
    /\ stderr = <<[at |-> "STAR", msg |-> "Too many constants in one chunk."]>>
    /\ chunk.code = <<OpByte("OP_CONSTANT"), OperandByte(255),
                      OpByte("OP_CONSTANT"), OperandByte(0),
                      OpByte("OP_CONSTANT"), OperandByte(0), OpByte("OP_MULT"),
                      OpByte("OP_ADD"), OpByte("OP_RETURN")>>

\* The objects met walking the tracked-object list from its head.
RECURSIVE Walk(_, _, _)
Walk(h, a, seen) ==
    IF a \notin DOMAIN h \/ a \in seen THEN seen
    ELSE Walk(h, h[a].next, seen \cup {a})

Tracked == Walk(heap, vmObjects, {})

CallIndexes == 1..Len(calls)

OnlyCopyString == \A i \in CallIndexes : calls[i].op = "copyString"

\* C8: while only copyString has been called, two calls returned the same
\* reference exactly when their contents were equal, every reference
\* returned is a live string with the content asked for, and the intern
\* table holds as many keys as distinct contents were asked for.
C8_CopyStringInterns ==
    OnlyCopyString =>
        /\ \A i, j \in CallIndexes :
              (calls[i].ref = calls[j].ref) <=> (calls[i].chars = calls[j].chars)
        /\ \A i \in CallIndexes :
              /\ calls[i].ref \in DOMAIN heap
              /\ Content(heap, calls[i].ref) = calls[i].chars
        /\ Cardinality(vmStrings) = Cardinality({calls[i].chars : i \in CallIndexes})

\* "a", "b", "a" were copied: the first and third call returned one
\* reference, the second another, and the table holds two keys.
C8_Witness ==
    /\ OnlyCopyString
    /\ Len(calls) = 3
    /\ calls[1].chars = <<97>> /\ calls[2].chars = <<98>> /\ calls[3].chars = <<97>>
    /\ calls[1].ref = calls[3].ref
    /\ calls[1].ref # calls[2].ref
    /\ Cardinality(vmStrings) = 2

\* C9: every key of the intern table is in the tracked-object list.
C9_InternedAreTracked == vmStrings \subseteq Tracked

\* Every takeString was called on content no earlier call had built.
TakeStringOnNewContent ==
    \A i \in CallIndexes :
        calls[i].op = "takeString" =>
            \A j \in 1..(i - 1) : calls[j].chars # calls[i].chars

\* C10: when every string built by xallocateString has been validated and
\* takeString was only called on new content, no two live string objects
\* hold the same content.
C10_OneObjectPerContent ==
    (Pending = {} /\ TakeStringOnNewContent) =>
        \A a, b \in DOMAIN heap : Content(heap, a) = Content(heap, b) => a = b

\* The step is a call of the named function.
CallStep(op) ==
    /\ Len(calls') = Len(calls) + 1
    /\ calls'[Len(calls')].op = op

\* The table holds a key with the content of this string.
Interned(string) ==
    \E k \in vmStrings : Content(heap, k) = Content(heap, string)

\* The tracked-object list: its head and every object's next field.
ListUnchanged ==
    /\ vmObjects' = vmObjects
    /\ \A a \in DOMAIN heap : a \in DOMAIN heap' /\ heap'[a].next = heap[a].next

\* C11: a validateString call on a string whose content the table already
\* holds leaves the table and the tracked-object list as they were; a call on
\* a string whose content the table does not hold adds that string to the
\* table and puts it, once, at the head of the tracked-object list.
C11_ValidateStringRegistersOnce ==
    [][ CallStep("validateString") =>
          LET string == calls'[Len(calls')].ref IN
          IF Interned(string)
          THEN vmStrings' = vmStrings /\ ListUnchanged
          ELSE /\ vmStrings' = vmStrings \cup {string}
               /\ vmObjects' = string
               /\ heap'[string].next = vmObjects
               /\ \A a \in DOMAIN heap \ {string} : heap'[a].next = heap[a].next
      ]_vars

\* C12: a copyString call changes neither the head of the tracked-object list
\* nor any object's next field, so the list holds the same objects after the
\* call as before it, and the scratch string the call builds is not in the
\* list; with only takeString and copyString called, the list holds exactly
\* the strings takeString returned.
C12_CopyStringLeavesListUnchanged ==
    /\ [][ CallStep("copyString") =>
             /\ ListUnchanged
             /\ Tracked' = Tracked
             /\ reallocate(heap) \notin Tracked'
         ]_vars
    /\ []((\A i \in CallIndexes : calls[i].op \in {"takeString", "copyString"}) =>
            Tracked = {calls[i].ref : i \in {j \in CallIndexes :
                                               calls[j].op = "takeString"}})

\* A string was allocated by takeString, "b" was interned by copyString, and
\* "b" was requested again: the second request returned the first one's
\* string and the list still holds the one tracked object.
C12_Witness ==
    /\ Len(calls) = 3
    /\ calls[1].op = "takeString"
    /\ calls[2].op = "copyString" /\ calls[2].chars = <<98>>
    /\ calls[3].op = "copyString" /\ calls[3].chars = <<98>>
    /\ calls[3].ref = calls[2].ref
    /\ Tracked = {calls[1].ref}
    /\ calls[3].ref \notin Tracked

\* ------------------------------------- reference: the language with prefixes
\*
\*   expr   ::= term   { ("+" | "-") term }
\*   term   ::= factor { ("*" | "/") factor }
\*   factor ::= NUMBER | "true" | "false" | "nil" | "(" expr ")" | "-" factor
\*
\* The negation is written after its operand, a literal as its own opcode.

LangLiteral(type) ==
    CASE type = "TRUE" -> "OP_TRUE"
      [] type = "FALSE" -> "OP_FALSE"
      [] type = "NIL" -> "OP_NIL"

RECURSIVE LangExpr(_, _), LangExprRest(_, _), LangTerm(_, _), LangTermRest(_, _),
          LangFactor(_, _)

LangFactor(toks, i) ==
    IF i > Len(toks) THEN RefFail
    ELSE CASE toks[i].type = "NUMBER" ->
                [ok |-> TRUE, pos |-> i + 1, code |-> <<[num |-> i]>>]
           [] toks[i].type \in {"TRUE", "FALSE", "NIL"} ->
                [ok |-> TRUE, pos |-> i + 1,
                 code |-> <<[op |-> LangLiteral(toks[i].type)]>>]
           [] toks[i].type = "LEFT_PAREN" ->
                LET e == LangExpr(toks, i + 1) IN
                IF e.ok /\ e.pos <= Len(toks) /\ toks[e.pos].type = "RIGHT_PAREN"
                THEN [e EXCEPT !.pos = @ + 1]
                ELSE RefFail
           [] toks[i].type = "MINUS" ->
                LET f == LangFactor(toks, i + 1) IN
                IF f.ok THEN [f EXCEPT !.code = @ \o <<[op |-> "OP_NEGATE"]>>]
                ELSE RefFail
           [] OTHER -> RefFail

LangTermRest(toks, acc) ==
    IF acc.ok /\ acc.pos <= Len(toks) /\ toks[acc.pos].type \in {"STAR", "SLASH"}
    THEN LET f == LangFactor(toks, acc.pos + 1) IN
         IF f.ok
         THEN LangTermRest(toks, [ok |-> TRUE, pos |-> f.pos,
                  code |-> acc.code \o f.code \o <<[op |-> RefOpcode(toks[acc.pos].type)]>>])
         ELSE RefFail
    ELSE acc

LangTerm(toks, i) == LangTermRest(toks, LangFactor(toks, i))

LangExprRest(toks, acc) ==
    IF acc.ok /\ acc.pos <= Len(toks) /\ toks[acc.pos].type \in {"PLUS", "MINUS"}
    THEN LET t == LangTerm(toks, acc.pos + 1) IN
         IF t.ok
         THEN LangExprRest(toks, [ok |-> TRUE, pos |-> t.pos,
                  code |-> acc.code \o t.code \o <<[op |-> RefOpcode(toks[acc.pos].type)]>>])
         ELSE RefFail
    ELSE acc

LangExpr(toks, i) == LangExprRest(toks, LangTerm(toks, i))

\* The stream is a whole expression of the language with prefixes.
InLanguage(hist) ==
    LET r == LangExpr(Source(hist), 1) IN r.ok /\ r.pos = Len(Source(hist)) + 1

\* The stream holds a prefix minus: a minus where an operand is due.
HasPrefixMinus(hist) ==
    \E i \in 1..Len(hist) :
        /\ hist[i].type = "MINUS"
        /\ (i = 1 \/ hist[i - 1].type \in BinaryTypes \cup {"LEFT_PAREN"})

\* C13: for an expression with a prefix minus compiled into a fresh chunk,
\* the code is the postfix form in which OP_NEGATE stands directly after the
\* code of the one operand (number, literal, parenthesis or negation) that
\* follows the minus, before the opcode of any binary operator after that
\* operand; "-3" compiles to OP_CONSTANT 0, OP_NEGATE, OP_RETURN, and
\* "-1 + 2" to OP_CONSTANT 0, OP_NEGATE, OP_CONSTANT 1, OP_ADD, OP_RETURN.
C13_NegateAfterOperand ==
    /\ (Returned /\ InLanguage(scanned) /\ HasPrefixMinus(scanned)
           /\ chunk.constBase = 0) =>
          /\ chunk.code = RefBytes(Source(scanned), LangExpr(Source(scanned), 1).code)
                             \o <<OpByte("OP_RETURN")>>
          /\ chunk.constants = RefConstants(Source(scanned))
    /\ (Returned /\ Types(scanned) = <<"MINUS", "NUMBER", "EOF">>
           /\ chunk.constBase = 0) =>
          /\ chunk.code = <<OpByte("OP_CONSTANT"), OperandByte(0),
                            OpByte("OP_NEGATE"), OpByte("OP_RETURN")>>
          /\ chunk.constants = <<NUMBER_VAL(2)>>
    /\ (Returned /\ Types(scanned) = <<"MINUS", "NUMBER", "PLUS", "NUMBER", "EOF">>
           /\ chunk.constBase = 0) =>
          chunk.code = <<OpByte("OP_CONSTANT"), OperandByte(0), OpByte("OP_NEGATE"),
                         OpByte("OP_CONSTANT"), OperandByte(1), OpByte("OP_ADD"),
                         OpByte("OP_RETURN")>>

\* "-1 + 2" was compiled: the negation stands before the second operand.
C13_Witness ==
    /\ Returned
    /\ chunk.constBase = 0
    /\ Types(scanned) = <<"MINUS", "NUMBER", "PLUS", "NUMBER", "EOF">>
    /\ chunk.code = <<OpByte("OP_CONSTANT"), OperandByte(0), OpByte("OP_NEGATE"),
                      OpByte("OP_CONSTANT"), OperandByte(1), OpByte("OP_ADD"),
                      OpByte("OP_RETURN")>>

\* C14: a literal token in prefix position (the current token when
\* parsePrecedence is entered) appends exactly its one opcode to the code and
\* nothing to the pool; and the sources "true", "false" and "nil", compiled
\* into a fresh chunk, each make compile return true with that opcode and
\* OP_RETURN as the code and an empty pool.
C14_LiteralOpcodes ==
    /\ [][ (stack # <<>> /\ Top.fn = "parsePrecedence"
              /\ getRule(parser.current.type).prefix = "literal")
           => /\ chunk'.code = Append(chunk.code,
                                      OpByte(LangLiteral(parser.current.type)))
              /\ chunk'.constants = chunk.constants
         ]_vars
    /\ [](\A lit \in {"TRUE", "FALSE", "NIL"} :
            (Returned /\ Types(scanned) = <<lit, "EOF">> /\ chunk.constBase = 0) =>
               /\ ret = "true"
               /\ chunk.code = <<OpByte(LangLiteral(lit)), OpByte("OP_RETURN")>>
               /\ chunk.constants = <<>>)

\* The input buffers of takeString for a length: the bytes up to the
\* buffer's terminator, and what the new chars array held before the copy at
\* the places the copy loop does not reach.
TakeStringInputs(length) ==
    UNION {BytesOfLen(n) \X Garbage(IF n < length THEN length - n ELSE 0) :
             n \in 0..(MaxLen + 1)}

\* C15: in every state of the VM, for every length and every input buffer,
\* the string takeString would return is at the head of the tracked-object
\* list, its stored length is `length`, its bytes before index length are the
\* input's (up to and including the input's terminator when that comes
\* first), the byte at index length is the terminator, no byte is written
\* past index length, and its hash is the FNV-1a hash of the input's first
\* length bytes.
C15_AllocateStringCopiesLength ==
    \A length \in 0..MaxLen : \A in \in TakeStringInputs(length) :
        LET chars == in[1]
            r == takeString(VM, chars, length, in[2])
            string == r.vm.heap[r.ref]
        IN  /\ r.vm.objects = r.ref
            /\ string.length = length
            /\ \A i \in 1..length :
                  /\ i <= Len(chars) => string.chars[i] = chars[i]
                  /\ i = Len(chars) + 1 => string.chars[i] = 0
            /\ Len(string.chars) = length + 1
            /\ string.chars[length + 1] = 0
            /\ allocateStringOverrun(chars, length) = 0
            /\ Len(chars) >= length => string.hash = hashString(chars, length)

\* The scanner has yielded end-of-input.
AtEnd(hist) == hist # <<>> /\ hist[Len(hist)].type = "EOF"

\* C16: a compile call that was entered returns; within it every
\* parsePrecedence call moves the current token to previous and, unless the
\* scanner is at end-of-input, reads a new one; no iteration of the infix
\* loop is run with end-of-input as its operator; the tokens read only grow
\* and a new current token is always a newly scanned one; and when compile
\* has returned, with or without an error, the code holds exactly one
\* OP_RETURN, as its last byte.
C16_CompileReturns ==
    /\ (~Returned) ~> Returned
    /\ [][ (stack # <<>> /\ Top.fn = "parsePrecedence") =>
             /\ parser'.previous = parser.current
             /\ ~AtEnd(scanned) => Len(scanned') > Len(scanned)
         ]_vars
    /\ [][ (stack # <<>> /\ Top.fn = "infixLoop" /\ event' \in {"infix", "null call"}) =>
             /\ parser.current.type # "EOF"
             /\ parser'.previous = parser.current
             /\ parser'.previous.type # "EOF"
         ]_vars
    /\ [][ stack # <<>> =>
             /\ Len(scanned') >= Len(scanned)
             /\ SubSeq(scanned', 1, Len(scanned)) = scanned
             /\ parser'.previous \in {parser.previous, parser.current}
             /\ parser'.current # parser.current =>
                   /\ Len(scanned') > Len(scanned)
                   /\ parser'.current = scanned'[Len(scanned')]
         ]_vars
    /\ [](Returned =>
            /\ stack = <<>>
            /\ chunk.code # <<>>
            /\ chunk.code[Len(chunk.code)] = OpByte("OP_RETURN")
            /\ Cardinality({i \in 1..Len(chunk.code) :
                              chunk.code[i] = OpByte("OP_RETURN")}) = 1)

\* "(1" was compiled: the closing parenthesis is missing, the scanner was
\* asked past end-of-input, and compile returned with the one OP_RETURN.
C16_Witness ==
    /\ Returned
    /\ Types(scanned) = <<"LEFT_PAREN", "NUMBER", "EOF">>
    /\ event = "consumed"
    /\ chunk.code = <<OpByte("OP_CONSTANT"), OperandByte(0), OpByte("OP_RETURN")>>

\* Following next from `a` ends at NULL and meets only live objects, each
\* once.
RECURSIVE Chain(_, _, _)
Chain(h, a, seen) ==
    IF a = NULL THEN TRUE
    ELSE IF a \notin DOMAIN h \/ a \in seen THEN FALSE
    ELSE Chain(h, h[a].next, seen \cup {a})

\* C17: the tracked-object list from vm.objects is a finite chain that ends
\* at NULL and holds every object at most once, and no object is its own
\* successor.
C17_ListIsChain ==
    /\ Chain(heap, vmObjects, {})
    /\ \A a \in DOMAIN heap : heap[a].next # a

\* The depth of the value stack when the code from byte i on, run with
\* `depth` values on the stack, reaches its final OP_RETURN; -1 when an
\* instruction finds too few values, a byte is no instruction, or the code
\* does not end with its only OP_RETURN.
RECURSIVE StackDepth(_, _, _)
StackDepth(code, i, depth) ==
    IF i > Len(code) THEN -1
    ELSE IF "operand" \in DOMAIN code[i] THEN -1
    ELSE LET op == code[i].op IN
         CASE op = "OP_CONSTANT" ->
                IF i + 1 <= Len(code) /\ "operand" \in DOMAIN code[i + 1]
                THEN StackDepth(code, i + 2, depth + 1)
                ELSE -1
           [] op \in {"OP_TRUE", "OP_FALSE", "OP_NIL"} ->
                StackDepth(code, i + 1, depth + 1)
           [] op = "OP_NEGATE" ->
                IF depth >= 1 THEN StackDepth(code, i + 1, depth) ELSE -1
           [] op \in {"OP_ADD", "OP_SUB", "OP_MULT", "OP_DIV"} ->
                IF depth >= 2 THEN StackDepth(code, i + 1, depth - 1) ELSE -1
           [] op = "OP_RETURN" ->
                IF i = Len(code) THEN depth ELSE -1
           [] OTHER -> -1

\* C18: when compile has returned true, the code run from an empty stack
\* never finds too few values for an instruction and reaches the final
\* OP_RETURN with exactly one value on the stack.
C18_TrueMeansStackWellFormed ==
    ret = "true" => StackDepth(chunk.code, 1, 0) = 1

\* "(1 + 2" was compiled: the parenthesis is never closed, compile returned
\* true, and the code adds the two constants and returns.
C18_Witness ==
    /\ ret = "true"
    /\ Types(scanned) = <<"LEFT_PAREN", "NUMBER", "PLUS", "NUMBER", "EOF">>
    /\ event = "consumed"
    /\ chunk.code = <<OpByte("OP_CONSTANT"), OperandByte(0),
                      OpByte("OP_CONSTANT"), OperandByte(1), OpByte("OP_ADD"),
                      OpByte("OP_RETURN")>>
    /\ StackDepth(chunk.code, 1, 0) = 1

\* C19: every parsePrecedence call waiting or running has a threshold from
\* PREC_ASSIGN to PREC_UNARY; every token type whose rule has a precedence of
\* at least PREC_ASSIGN has an infix rule; an iteration of the infix loop
\* calls the infix rule (binary) of the token that was current at its test;
\* a parsePrecedence call whose token has no prefix rule returns without
\* calling one, and otherwise calls that token's prefix rule; and no call
\* through a NULL rule is ever made.
C19_OnlyPresentRulesCalled ==
    /\ [](\A i \in 1..Len(stack) :
            stack[i].fn \in {"parsePrecedence", "infixLoop"} =>
               stack[i].precedence \in PREC_ASSIGN..PREC_UNARY)
    /\ [](\A type \in TokenTypes \cup {"EOF"} :
            getRule(type).precedence >= PREC_ASSIGN => getRule(type).infix # "NULL")
    /\ [](event # "null call")
    /\ [][ (stack # <<>> /\ Top.fn = "infixLoop"
              /\ Top.precedence <= getRule(parser.current.type).precedence) =>
             /\ getRule(parser.current.type).infix = "binary"
             /\ event' = "infix"
             /\ Len(stack') = Len(stack) + 2
             /\ stack'[Len(stack) + 1] = Frame("binary", PREC_NONE, parser.current.type)
         ]_vars
    /\ [][ (stack # <<>> /\ Top.fn = "parsePrecedence") =>
             IF getRule(parser.current.type).prefix = "NULL"
             THEN stack' = Pop /\ event' = "expected expression"
             ELSE event' = getRule(parser.current.type).prefix
         ]_vars

\* After "1 *" the infix loop has called binary for the star, and binary has
\* called parsePrecedence with the highest threshold there is, PREC_UNARY.
C19_Witness ==
    /\ event = "infix"
    /\ Types(scanned) = <<"NUMBER", "STAR", "NUMBER">>
    /\ Len(stack) >= 2
    /\ Top = Frame("parsePrecedence", PREC_UNARY, "NONE")
    /\ stack[Len(stack) - 1] = Frame("binary", PREC_NONE, "STAR")

====
